---- MODULE Spec2Model ----
(***************************************************************************)
(* daylight-timeseries: a poll loop that computes, once per poll interval, *)
(* whether "now" lies between the cached sunrise and sunset of the         *)
(* configured location, and writes that boolean to InfluxDB.               *)
(*                                                                         *)
(* Two implementations are modelled, selected by impl:                     *)
(*   "current"  src/main.go lines   1-212 (InfluxDB v2 client, goroutine,  *)
(*              signal handling, asynchronous error channel)               *)
(*   "legacy"   src/main.go lines 214-383 (InfluxDB v1 client, loop on the *)
(*              main goroutine, synchronous write error)                   *)
(*                                                                         *)
(* Time.  A time.Time is a record [d, t]: d = days since 1970-01-01 and    *)
(* t = clock ticks since midnight, Res ticks to the second.  All times are *)
(* in one zone without daylight-saving shifts (UTC).  The wall clock is    *)
(* the variable clock; it never goes backwards.                            *)
(*                                                                         *)
(* The astronomical calculator (go-sunrise) is an external library; it is  *)
(* modelled by its contract: the sunrise and the sunset of the requested   *)
(* date, at fixed times of that day for a given location.                  *)
(***************************************************************************)
EXTENDS Integers, Sequences, FiniteSets, TLC

VARIABLES
    impl,          \* "current" or "legacy"
    config,        \* the loaded configuration file
    clock,         \* the wall clock, read by time.Now()
    now,           \* main's variable now
    sunriseTime,   \* main's variable sunriseTime (cached window)
    sunsetTime,    \* main's variable sunsetTime  (cached window)
    pollStartTime, \* int32 Unix seconds at the start of the cycle
    daylight,      \* the cycle's daylight boolean
    timeElapsed,   \* int32 seconds the cycle took
    pcMain,        \* position of the main goroutine
    pcPoll,        \* position of the poll loop
    cancelCh,      \* number of signals queued in cancelCh (capacity 1)
    written,       \* the points handed to the sink, in order
    flushCalls,    \* number of writeAPI.Flush() calls made
    closed,        \* influxClient.Close() was called
    errorsCh,      \* number of errors queued in the sink's error channel
    errLogged,     \* number of write errors logged
    calcCalls,     \* history: number of calls of sunrise.SunriseSunset
    cycle,         \* history: number of poll cycles started
    cycleStartAt,  \* history: the clock reading pollStartTime was taken from
    suspends,      \* history: number of times the process was suspended
    configFile,    \* the configuration file as found on disk
    client,        \* the InfluxDB client and write API main holds
    err            \* main's variable err

vars == <<impl, config, clock, now, sunriseTime, sunsetTime, pollStartTime,
          daylight, timeElapsed, pcMain, pcPoll, cancelCh, written,
          flushCalls, closed, errorsCh, errLogged, calcCalls, cycle,
          cycleStartAt, suspends, configFile, client, err>>

----------------------------------------------------------------------------
(* Bounds of the model *)

\* clock ticks per second
Res == 2
\* poll cycles a behaviour may start
MaxCycles == 3
\* asynchronous write errors the sink may report
MaxErrors == 1
\* times the process may be suspended while it sleeps
MaxSuspends == 1

----------------------------------------------------------------------------
(* package time *)

Second == Res
Minute == 60 * Second
Hour == 60 * Minute
TicksPerDay == 24 * Hour

Max(a, b) == IF a >= b THEN a ELSE b

\* a time.Time from a day number and a (possibly out of range) tick of day
Norm(d, t) == [d |-> d + (t \div TicksPerDay), t |-> t % TicksPerDay]

\* t.Add(dur)
Add(tm, dur) == Norm(tm.d, tm.t + dur)

\* a.Before(b), a.After(b)
Before(a, b) == a.d < b.d \/ (a.d = b.d /\ a.t < b.t)
After(a, b) == a.d > b.d \/ (a.d = b.d /\ a.t > b.t)

\* the civil date of day number z (proleptic Gregorian calendar)
CivilFromDays(z) ==
    LET z1 == z + 719468
        era == z1 \div 146097
        doe == z1 - era * 146097
        yoe == (doe - doe \div 1460 + doe \div 36524 - doe \div 146096) \div 365
        doy == doe - (365 * yoe + yoe \div 4 - yoe \div 100)
        mp == (5 * doy + 2) \div 153
        dd == doy - (153 * mp + 2) \div 5 + 1
        mm == IF mp < 10 THEN mp + 3 ELSE mp - 9
        yy == yoe + era * 400 + (IF mm <= 2 THEN 1 ELSE 0)
    IN  [year |-> yy, month |-> mm, day |-> dd]

\* t.Year(), t.Month(), t.Day()
Year(tm) == CivilFromDays(tm.d).year
Month(tm) == CivilFromDays(tm.d).month
Day(tm) == CivilFromDays(tm.d).day

\* the day number of a civil date
DaysFromCivil(y, m, d) ==
    LET y1 == IF m <= 2 THEN y - 1 ELSE y
        era == y1 \div 400
        yoe == y1 - era * 400
        mp == IF m > 2 THEN m - 3 ELSE m + 9
        doy == (153 * mp + 2) \div 5 + d - 1
        doe == yoe * 365 + yoe \div 4 - yoe \div 100 + doy
    IN  era * 146097 + doe - 719468

\* time.Date(y, m, d, 0, 0, 0, 0, loc).Add(ticks)
Date(y, m, d, ticks) == Norm(DaysFromCivil(y, m, d), ticks)

\* 16-bit limbs keep 32-bit values inside the checker's integers
Limb == 2 ^ 16
HalfLimb == 2 ^ 15

\* t.Unix() as limbs [hi, lo], value hi * 2^16 + lo   (86400 = 2^16 + 20864)
Unix(tm) ==
    LET raw == tm.d * (86400 - Limb) + (tm.t \div Second)
    IN  [hi |-> tm.d + (raw \div Limb), lo |-> raw % Limb]

\* variant: a conversion that saturates at 2^31 - 1 instead of wrapping
Int32Saturating(x) ==
    IF x.hi >= HalfLimb
    THEN (HalfLimb - 1) * Limb + (Limb - 1)
    ELSE x.hi * Limb + x.lo

\* int32(x): the low 32 bits of x, read as a signed number
Int32(x) ==
    LET h == x.hi % Limb
    IN  (IF h >= HalfLimb THEN h - Limb ELSE h) * Limb + x.lo

\* a - b on int32 operands, wrapping modulo 2^32
Int32Sub(a, b) ==
    LET dl == (a % Limb) - (b % Limb)
        dh == (a \div Limb) - (b \div Limb) - (IF dl < 0 THEN 1 ELSE 0)
        l == IF dl < 0 THEN dl + Limb ELSE dl
        h == ((dh + HalfLimb) % Limb) - HalfLimb
    IN  h * Limb + l

----------------------------------------------------------------------------
(* The astronomical calculator, by its contract *)

SunriseOfDay(latitude, longitude) == 6 * Hour + 30 * Minute
SunsetOfDay(latitude, longitude) == 19 * Hour + 45 * Minute

\* sunrise.SunriseSunset(latitude, longitude, year, month, day)
SunriseSunset(latitude, longitude, year, month, day) ==
    << Date(year, month, day, SunriseOfDay(latitude, longitude)),
       Date(year, month, day, SunsetOfDay(latitude, longitude)) >>

----------------------------------------------------------------------------
(* The functions of the current implementation *)

\* variant: year, month and day are compared, not only the day of the month
StaleCalendarDay(currentSunrise, currentSunset, t) ==
    \/ currentSunrise.d = Add(t, -24 * Hour).d
    \/ currentSunset.d = Add(t, -24 * Hour).d

\* variant: the cached days are compared with the day of t itself
StaleToday(currentSunrise, currentSunset, t) ==
    \/ Day(currentSunrise) = Day(t)
    \/ Day(currentSunset) = Day(t)

\* the condition of the if statement in UpdateSunriseSunset
Stale(currentSunrise, currentSunset, t) ==
    \/ Day(currentSunrise) = Day(Add(t, -24 * Hour))
    \/ Day(currentSunset) = Day(Add(t, -24 * Hour))

\* variant: the calculator is asked for the day of t - 24h
UpdateSunriseSunsetForYesterday(cfg, currentSunrise, currentSunset, t) ==
    IF Stale(currentSunrise, currentSunset, t)
    THEN SunriseSunset(cfg.latitude, cfg.longitude, Year(Add(t, -24 * Hour)),
                       Month(Add(t, -24 * Hour)), Day(Add(t, -24 * Hour)))
    ELSE << currentSunrise, currentSunset >>

UpdateSunriseSunset(cfg, currentSunrise, currentSunset, t) ==
    IF Stale(currentSunrise, currentSunset, t)
    THEN SunriseSunset(cfg.latitude, cfg.longitude, Year(t), Month(t), Day(t))
    ELSE << currentSunrise, currentSunset >>

\* variant: the two tests are joined by "and"
DaylightBothTests(sunrise, sunset, t) ==
    IF Before(t, sunrise) /\ After(t, sunset) THEN FALSE ELSE TRUE

\* variant: the interval is open at the sunset
DaylightHalfOpen(sunrise, sunset, t) ==
    IF Before(t, sunrise) \/ ~Before(t, sunset) THEN FALSE ELSE TRUE

Daylight(sunrise, sunset, t) ==
    IF Before(t, sunrise) \/ After(t, sunset) THEN FALSE ELSE TRUE

\* variant: the point is handed to the sink twice
WriteToInfluxTwice(points, dl, t) ==
    Append(Append(points, [daylight |-> dl, t |-> t]), [daylight |-> dl, t |-> t])

\* the sink's points after WriteToInflux(config, writeAPI, daylight, t)
WriteToInflux(points, dl, t) ==
    Append(points, [daylight |-> dl, t |-> t])

\* variant: the elapsed time is not subtracted
SleepArgWholeInterval(cfg, elapsed) == cfg.pollInterval * Second

\* the argument of time.Sleep, in ticks
SleepArg(cfg, elapsed) == cfg.pollInterval * Second - elapsed * Second

----------------------------------------------------------------------------
(* The functions of the legacy implementation *)

LegacyStale(currentSunrise, currentSunset, t) ==
    \/ Day(currentSunrise) = Day(Add(t, -24 * Hour))
    \/ Day(currentSunset) = Day(Add(t, -24 * Hour))

LegacyUpdateSunriseSunset(cfg, currentSunrise, currentSunset, t) ==
    IF LegacyStale(currentSunrise, currentSunset, t)
    THEN SunriseSunset(cfg.latitude, cfg.longitude, Year(t), Month(t), Day(t))
    ELSE << currentSunrise, currentSunset >>

LegacyDaylight(sunrise, sunset, t) ==
    IF Before(t, sunrise) \/ After(t, sunset) THEN FALSE ELSE TRUE

LegacyWriteToInflux(points, dl, t) ==
    Append(points, [daylight |-> dl, t |-> t])

\* variant: the elapsed time is not subtracted
LegacySleepArgWholeInterval(cfg, elapsed) == cfg.pollInterval * Second

LegacySleepArg(cfg, elapsed) == cfg.pollInterval * Second - elapsed * Second

----------------------------------------------------------------------------
(* Inputs *)

Impls == {"current", "legacy"}

\* 2021-02-28, the last day of a month
BaseDay == DaysFromCivil(2021, 2, 28)

\* pollInterval in seconds: the example file's 60, and 25 hours
PollIntervals == {60, 25 * 3600}

\* the influxDB section of the example file, flushInterval included
ExampleInfluxDB ==
    [ address |-> "https://127.0.0.1:8086",
      username |-> "myuser", password |-> "mypass",
      database |-> "mydb", retentionPolicy |-> "autogen",
      token |-> "mytoken", organization |-> "myorg", bucket |-> "mybucket",
      flushInterval |-> 30 ]

Configs ==
    { [latitude |-> 40, longitude |-> -105, pollInterval |-> p, timeOffset |-> 30,
       influxDB |-> ExampleInfluxDB] :
        p \in PollIntervals }

\* the influxDB sections a configuration file may hold: each key of the
\* example file present or absent
InfluxDBs ==
    [ address : {"https://127.0.0.1:8086"},
      username : {"", "myuser"}, password : {"", "mypass"},
      database : {"", "mydb"}, retentionPolicy : {"", "autogen"},
      token : {"", "mytoken"}, organization : {"myorg"},
      bucket : {"", "mybucket"},
      flushInterval : {0, 10} ]

\* configuration files: unreadable, holding a value that does not decode
\* into the struct, or well-formed with each coordinate present (in or out of
\* range) or absent; << >> is an absent key
ConfigFiles ==
    [ state : {"unreadable", "mistyped", "ok"},
      latitude : {<< >>, <<40>>, <<200>>},
      longitude : {<< >>, <<-105>>},
      pollInterval : {60},
      timeOffset : {30},
      influxDB : InfluxDBs ]

\* the InfluxDB keys of a legacy configuration file, with the values of the
\* example file
LegacyExampleInfluxDB ==
    [ url |-> "https://127.0.0.1", port |-> 8086,
      database |-> "mydb", retentionPolicy |-> "autogen" ]

LegacyConfigs ==
    { [latitude |-> 40, longitude |-> -105, pollInterval |-> p, timeOffset |-> 30,
       influxDB |-> LegacyExampleInfluxDB] :
        p \in PollIntervals }

\* the URLs a legacy file may hold: none, a host alone, a scheme and a host
LegacyUrls == {"", "127.0.0.1", "https://127.0.0.1"}

\* those of LegacyUrls that begin with a scheme
LegacySchemeUrls == {"https://127.0.0.1"}

\* legacy configuration files: a file that cannot be opened, a file that is
\* not JSON, or a JSON object with each key present or absent
LegacyConfigFiles ==
    [ state : {"unreadable", "undecodable", "ok"},
      latitude : {<< >>, <<40>>},
      longitude : {<< >>, <<-105>>},
      pollInterval : {<< >>, <<60>>},
      timeOffset : {30},
      influxDB : [ url : LegacyUrls,
                   port : {<< >>, <<8086>>},
                   database : {"", "mydb"},
                   retentionPolicy : {"", "autogen"} ] ]

\* the legacy file a loaded configuration came from
LegacyFileOf(cfg) ==
    [ state |-> "ok",
      latitude |-> <<cfg.latitude>>,
      longitude |-> <<cfg.longitude>>,
      pollInterval |-> <<cfg.pollInterval>>,
      timeOffset |-> cfg.timeOffset,
      influxDB |-> [ url |-> cfg.influxDB.url,
                     port |-> <<cfg.influxDB.port>>,
                     database |-> cfg.influxDB.database,
                     retentionPolicy |-> cfg.influxDB.retentionPolicy ] ]

\* the file a loaded configuration came from
FileOf(cfg) ==
    [ state |-> "ok",
      latitude |-> <<cfg.latitude>>,
      longitude |-> <<cfg.longitude>>,
      pollInterval |-> cfg.pollInterval,
      timeOffset |-> cfg.timeOffset,
      influxDB |-> cfg.influxDB ]

\* the clock when the process starts
\* 2038-01-19: int32 Unix seconds overflow at 03:14:08
WrapDay == DaysFromCivil(2038, 1, 19)

StartTimes ==
    { Norm(BaseDay, 6 * Hour + 44 * Minute),
      Norm(BaseDay, 23 * Hour + 59 * Minute + 30 * Second + 1),
      Norm(WrapDay, 3 * Hour + 14 * Minute + 5 * Second) }

\* the instants handed to a function evaluated on its own
FnTimes ==
    { Norm(BaseDay, 6 * Hour + 30 * Minute - 1),
      Norm(BaseDay, 6 * Hour + 30 * Minute),
      Norm(BaseDay, 12 * Hour),
      Norm(BaseDay, 19 * Hour + 45 * Minute),
      Norm(BaseDay, 19 * Hour + 45 * Minute + 1),
      Norm(BaseDay + 1, 6 * Hour + 30 * Minute) }

\* the time a cycle's processing takes, in ticks
WorkTimes == { 1, 5 * Second, 65 * Second }

\* the time a suspended process stays suspended, in ticks
SuspendTimes == { 2 * TicksPerDay, 29 * TicksPerDay }

ZeroTime == [d |-> 0, t |-> 0]

----------------------------------------------------------------------------
(* Startup: LoadConfiguration and InfluxConnect *)

\* the nil *Configuration
NilConfiguration ==
    [ latitude |-> 0, longitude |-> 0, pollInterval |-> 0, timeOffset |-> 0,
      influxDB |-> [ address |-> "", username |-> "", password |-> "",
                     database |-> "", retentionPolicy |-> "", token |-> "",
                     organization |-> "", bucket |-> "", flushInterval |-> 0 ] ]

\* the nil influx.Client and WriteAPI
NoClient ==
    [ created |-> FALSE, address |-> "", auth |-> "", organization |-> "",
      writeDest |-> "", flushInterval |-> 0 ]

\* the value of a key of the file, the zero value when the key is absent
KeyOrZero(key) == IF key = << >> THEN 0 ELSE key[1]

\* LoadConfiguration, lines 41-58: the read fails, or the decoding fails, or
\* the struct holds the keys of the file and zero values for absent keys.
\* The timeOffset key has no field in the struct; it is carried along only
\* so that the file's offset can be named.
LoadConfiguration(file) ==
    IF file.state = "unreadable"
    THEN [ err |-> "error reading config file", configuration |-> NilConfiguration ]
    ELSE IF file.state = "mistyped"
    THEN [ err |-> "unable to decode config into struct",
           configuration |-> NilConfiguration ]
    ELSE [ err |-> "",
           configuration |->
             [ latitude |-> KeyOrZero(file.latitude),
               longitude |-> KeyOrZero(file.longitude),
               pollInterval |-> file.pollInterval,
               timeOffset |-> file.timeOffset,
               influxDB |-> file.influxDB ] ]

\* variant: username and password are preferred to the token
InfluxConnectUsernameFirst(cfg) ==
    LET db == cfg.influxDB
        auth == IF db.username # "" /\ db.password # ""
                THEN db.username \o ":" \o db.password
                ELSE db.token
        flush == IF db.flushInterval = 0 THEN 30 ELSE db.flushInterval
    IN  IF db.bucket # ""
        THEN [ err |-> "", flushInterval |-> flush,
               client |-> [ created |-> TRUE, address |-> db.address,
                            auth |-> auth, organization |-> db.organization,
                            writeDest |-> db.bucket,
                            flushInterval |-> 1000 * flush ] ]
        ELSE IF db.database # "" /\ db.retentionPolicy # ""
        THEN [ err |-> "", flushInterval |-> flush,
               client |-> [ created |-> TRUE, address |-> db.address,
                            auth |-> auth, organization |-> db.organization,
                            writeDest |-> db.database \o "/" \o db.retentionPolicy,
                            flushInterval |-> 1000 * flush ] ]
        ELSE [ err |-> "InfluxWriteConfigError",
               flushInterval |-> db.flushInterval, client |-> NoClient ]

\* InfluxConnect, lines 66-99: auth and writeDest by precedence, the error
\* when no destination is configured, the flush interval defaulted to 30
\* seconds in the configuration and passed to the client in milliseconds
InfluxConnect(cfg) ==
    LET db == cfg.influxDB
        auth == IF db.token # ""
                THEN db.token
                ELSE IF db.username # "" /\ db.password # ""
                THEN db.username \o ":" \o db.password
                ELSE ""
        flush == IF db.flushInterval = 0 THEN 30 ELSE db.flushInterval
    IN  IF db.bucket # ""
        THEN [ err |-> "", flushInterval |-> flush,
               client |-> [ created |-> TRUE, address |-> db.address,
                            auth |-> auth, organization |-> db.organization,
                            writeDest |-> db.bucket,
                            flushInterval |-> 1000 * flush ] ]
        ELSE IF db.database # "" /\ db.retentionPolicy # ""
        THEN [ err |-> "", flushInterval |-> flush,
               client |-> [ created |-> TRUE, address |-> db.address,
                            auth |-> auth, organization |-> db.organization,
                            writeDest |-> db.database \o "/" \o db.retentionPolicy,
                            flushInterval |-> 1000 * flush ] ]
        ELSE [ err |-> "InfluxWriteConfigError",
               flushInterval |-> db.flushInterval, client |-> NoClient ]

----------------------------------------------------------------------------
(* Startup of the legacy implementation, lines 243-296 *)

\* the zero value of the legacy Configuration
LegacyZeroConfiguration ==
    [ latitude |-> 0, longitude |-> 0, pollInterval |-> 0, timeOffset |-> 0,
      influxDB |-> [ url |-> "", port |-> 0, database |-> "",
                     retentionPolicy |-> "" ] ]

\* LoadConfiguration, lines 243-260: never fails.  A file that cannot be
\* opened gives the zero value (a warning is logged); the error of Decode is
\* ignored, and a file that is not JSON leaves the zero value; absent keys
\* keep their zero value.
LegacyLoadConfiguration(file) ==
    IF file.state # "ok"
    THEN LegacyZeroConfiguration
    ELSE [ latitude |-> KeyOrZero(file.latitude),
           longitude |-> KeyOrZero(file.longitude),
           pollInterval |-> KeyOrZero(file.pollInterval),
           timeOffset |-> file.timeOffset,
           influxDB |-> [ url |-> file.influxDB.url,
                          port |-> KeyOrZero(file.influxDB.port),
                          database |-> file.influxDB.database,
                          retentionPolicy |-> file.influxDB.retentionPolicy ] ]

\* line 278: fmt.Sprintf("%s:%d", config.InfluxDBURL, config.InfluxDBPort)
LegacyInfluxDBAddr(cfg) ==
    cfg.influxDB.url \o ":" \o ToString(cfg.influxDB.port)

\* line 279: url.Parse fails on an address without a scheme (":0",
\* "127.0.0.1:8086") and succeeds on "https://127.0.0.1:8086"
UrlParseFails(addr) ==
    addr \notin { u \o ":" \o ToString(p) : u \in LegacySchemeUrls, p \in {0, 8086} }

\* lines 278-296: the parse error is the only one that occurs;
\* influxdb.NewClient returns no error for a parsed URL
LegacyConnect(cfg) ==
    IF UrlParseFails(LegacyInfluxDBAddr(cfg))
    THEN [ err |-> "failed to parse InfluxDB URL", client |-> NoClient ]
    ELSE [ err |-> "",
           client |-> [ created |-> TRUE, address |-> LegacyInfluxDBAddr(cfg),
                        auth |-> "", organization |-> "", writeDest |-> "",
                        flushInterval |-> 0 ] ]

----------------------------------------------------------------------------
(* Initial state: the configuration is loaded and the sink is connected *)

Init ==
    /\ impl \in Impls
    /\ config \in (IF impl = "current" THEN Configs ELSE LegacyConfigs)
    /\ clock \in StartTimes
    /\ now = ZeroTime
    /\ sunriseTime = ZeroTime
    /\ sunsetTime = ZeroTime
    /\ pollStartTime = 0
    /\ daylight = FALSE
    /\ timeElapsed = 0
    /\ pcMain = "init"
    /\ pcPoll = "idle"
    /\ cancelCh = 0
    /\ written = << >>
    /\ flushCalls = 0
    /\ closed = FALSE
    /\ errorsCh = 0
    /\ errLogged = 0
    /\ calcCalls = 0
    /\ cycle = 0
    /\ cycleStartAt = ZeroTime
    /\ suspends = 0
    /\ configFile = (IF impl = "current" THEN FileOf(config)
                                         ELSE LegacyFileOf(config))
    /\ client = (IF impl = "current" THEN InfluxConnect(config).client
                                     ELSE LegacyConnect(config).client)
    /\ err = ""

----------------------------------------------------------------------------
(* The current implementation: startup *)

\* main, lines 103-112: load the file; log.Fatal exits the process
MainLoadConfiguration ==
    /\ impl = "current"
    /\ pcMain = "load"
    /\ LET r == LoadConfiguration(configFile)
       IN  /\ err' = r.err
           /\ config' = r.configuration
           /\ pcMain' = IF r.err # "" THEN "fatal" ELSE "connect"
    /\ UNCHANGED <<impl, clock, now, sunriseTime, sunsetTime, pollStartTime,
                   daylight, timeElapsed, pcPoll, cancelCh, written,
                   flushCalls, closed, errorsCh, errLogged, calcCalls, cycle,
                   cycleStartAt, suspends, configFile, client>>

\* main, lines 114-121: connect; log.Fatal exits the process
MainInfluxConnect ==
    /\ impl = "current"
    /\ pcMain = "connect"
    /\ LET r == InfluxConnect(config)
       IN  /\ err' = r.err
           /\ client' = r.client
           /\ config' = [config EXCEPT !.influxDB.flushInterval = r.flushInterval]
           /\ pcMain' = IF r.err # "" THEN "fatal" ELSE "init"
    /\ UNCHANGED <<impl, clock, now, sunriseTime, sunsetTime, pollStartTime,
                   daylight, timeElapsed, pcPoll, cancelCh, written,
                   flushCalls, closed, errorsCh, errLogged, calcCalls, cycle,
                   cycleStartAt, suspends, configFile>>

----------------------------------------------------------------------------
(* The current implementation: main goroutine *)

\* main, lines 141-164: the initial window, then the poll goroutine starts
MainInit ==
    /\ impl = "current"
    /\ pcMain = "init"
    /\ now' = clock
    /\ LET w == SunriseSunset(config.latitude, config.longitude,
                              Year(clock), Month(clock), Day(clock))
       IN  sunriseTime' = w[1] /\ sunsetTime' = w[2]
    /\ calcCalls' = calcCalls + 1
    /\ pcMain' = "wait"
    /\ pcPoll' = "start"
    /\ UNCHANGED <<impl, config, clock, pollStartTime, daylight, timeElapsed,
                   cancelCh, written, flushCalls, closed, errorsCh, errLogged,
                   cycle, cycleStartAt, suspends,
                   configFile, client, err>>

\* the operating system delivers SIGTERM or SIGINT; signal.Notify queues it
\* in cancelCh unless the channel is full
Signal ==
    /\ impl = "current"
    /\ pcMain # "done"
    /\ cancelCh = 0
    /\ cancelCh' = 1
    /\ UNCHANGED <<impl, config, clock, now, sunriseTime, sunsetTime,
                   pollStartTime, daylight, timeElapsed, pcMain, pcPoll,
                   written, flushCalls, closed, errorsCh, errLogged, calcCalls,
                   cycle, cycleStartAt, suspends,
                   configFile, client, err>>

\* main, line 166: sig := <-cancelCh
MainReceive ==
    /\ impl = "current"
    /\ pcMain = "wait"
    /\ cancelCh > 0
    /\ cancelCh' = cancelCh - 1
    /\ pcMain' = "flush"
    /\ UNCHANGED <<impl, config, clock, now, sunriseTime, sunsetTime,
                   pollStartTime, daylight, timeElapsed, pcPoll, written,
                   flushCalls, closed, errorsCh, errLogged, calcCalls, cycle,
                   cycleStartAt, suspends,
                   configFile, client, err>>

\* variant: after the flush main waits for the next signal
MainFlushThenWait ==
    /\ impl = "current"
    /\ pcMain = "flush"
    /\ flushCalls' = flushCalls + 1
    /\ pcMain' = "wait"
    /\ UNCHANGED <<impl, config, clock, now, sunriseTime, sunsetTime,
                   pollStartTime, daylight, timeElapsed, pcPoll, cancelCh,
                   written, closed, errorsCh, errLogged, calcCalls, cycle,
                   cycleStartAt, suspends,
                   configFile, client, err>>

\* variant: main stamps the log line with now = time.Now()
MainFlushSetsNow ==
    /\ impl = "current"
    /\ pcMain = "flush"
    /\ now' = clock
    /\ flushCalls' = flushCalls + 1
    /\ pcMain' = "return"
    /\ UNCHANGED <<impl, config, clock, sunriseTime, sunsetTime,
                   pollStartTime, daylight, timeElapsed, pcPoll, cancelCh,
                   written, closed, errorsCh, errLogged, calcCalls, cycle,
                   cycleStartAt, suspends,
                   configFile, client, err>>

\* main, lines 167-170: log, writeAPI.Flush()
MainFlush ==
    /\ impl = "current"
    /\ pcMain = "flush"
    /\ flushCalls' = flushCalls + 1
    /\ pcMain' = "return"
    /\ UNCHANGED <<impl, config, clock, now, sunriseTime, sunsetTime,
                   pollStartTime, daylight, timeElapsed, pcPoll, cancelCh,
                   written, closed, errorsCh, errLogged, calcCalls, cycle,
                   cycleStartAt, suspends,
                   configFile, client, err>>

\* main returns, line 123 runs: defer writeAPI.Flush()
MainDeferredFlush ==
    /\ impl = "current"
    /\ pcMain = "return"
    /\ flushCalls' = flushCalls + 1
    /\ pcMain' = "close"
    /\ UNCHANGED <<impl, config, clock, now, sunriseTime, sunsetTime,
                   pollStartTime, daylight, timeElapsed, pcPoll, cancelCh,
                   written, closed, errorsCh, errLogged, calcCalls, cycle,
                   cycleStartAt, suspends,
                   configFile, client, err>>

\* line 122 runs: defer influxClient.Close(); then the process exits
MainDeferredClose ==
    /\ impl = "current"
    /\ pcMain = "close"
    /\ closed' = TRUE
    /\ pcMain' = "done"
    /\ UNCHANGED <<impl, config, clock, now, sunriseTime, sunsetTime,
                   pollStartTime, daylight, timeElapsed, pcPoll, cancelCh,
                   written, flushCalls, errorsCh, errLogged, calcCalls, cycle,
                   cycleStartAt, suspends,
                   configFile, client, err>>

----------------------------------------------------------------------------
(* The current implementation: poll goroutine, lines 150-164 *)

\* line 153: pollStartTime := int32(time.Now().Unix())
PollStart ==
    /\ impl = "current"
    /\ pcMain # "done"
    /\ pcPoll = "start"
    /\ cycle < MaxCycles
    /\ pollStartTime' = Int32(Unix(clock))
    /\ cycleStartAt' = clock
    /\ cycle' = cycle + 1
    /\ pcPoll' = "now"
    /\ UNCHANGED <<impl, config, clock, now, sunriseTime, sunsetTime, daylight,
                   timeElapsed, pcMain, cancelCh, written, flushCalls, closed,
                   errorsCh, errLogged, calcCalls, suspends,
                   configFile, client, err>>

\* lines 155-157: now = time.Now(); UpdateSunriseSunset; Daylight
PollUpdate ==
    /\ impl = "current"
    /\ pcMain # "done"
    /\ pcPoll = "now"
    /\ now' = clock
    /\ LET w == UpdateSunriseSunset(config, sunriseTime, sunsetTime, clock)
       IN  /\ sunriseTime' = w[1]
           /\ sunsetTime' = w[2]
           /\ daylight' = Daylight(w[1], w[2], clock)
    /\ calcCalls' = calcCalls +
                    (IF Stale(sunriseTime, sunsetTime, clock) THEN 1 ELSE 0)
    /\ pcPoll' = "write"
    /\ UNCHANGED <<impl, config, clock, pollStartTime, timeElapsed, pcMain,
                   cancelCh, written, flushCalls, closed, errorsCh, errLogged,
                   cycle, cycleStartAt, suspends,
                   configFile, client, err>>

\* line 158: WriteToInflux; the cycle's processing has taken w ticks
PollWrite ==
    /\ impl = "current"
    /\ pcMain # "done"
    /\ pcPoll = "write"
    /\ written' = WriteToInflux(written, daylight, now)
    /\ \E w \in WorkTimes : clock' = Add(clock, w)
    /\ pcPoll' = "sleep"
    /\ UNCHANGED <<impl, config, now, sunriseTime, sunsetTime, pollStartTime,
                   daylight, timeElapsed, pcMain, cancelCh, flushCalls, closed,
                   errorsCh, errLogged, calcCalls, cycle, cycleStartAt, suspends,
                   configFile, client, err>>

\* line 160: timeElapsed; the goroutine then waits in time.Sleep
PollElapsed ==
    /\ impl = "current"
    /\ pcMain # "done"
    /\ pcPoll = "sleep"
    /\ timeElapsed' = Int32Sub(Int32(Unix(clock)), pollStartTime)
    /\ pcPoll' = "asleep"
    /\ UNCHANGED <<impl, config, clock, now, sunriseTime, sunsetTime,
                   pollStartTime, daylight, pcMain, cancelCh, written,
                   flushCalls, closed, errorsCh, errLogged, calcCalls, cycle,
                   cycleStartAt, suspends, configFile, client, err>>

\* line 161: time.Sleep ends; it returns at once for a duration that is not
\* positive.  Only the poll loop reads the clock, so the time that passes
\* while it waits is added when the wait ends; the other goroutines run
\* while pcPoll = "asleep".
PollSleep ==
    /\ impl = "current"
    /\ pcMain # "done"
    /\ pcPoll = "asleep"
    /\ clock' = Add(clock, Max(0, SleepArg(config, timeElapsed)))
    /\ pcPoll' = "start"
    /\ UNCHANGED <<impl, config, now, sunriseTime, sunsetTime, pollStartTime,
                   daylight, timeElapsed, pcMain, cancelCh, written, flushCalls,
                   closed, errorsCh, errLogged, calcCalls, cycle, cycleStartAt,
                   suspends, configFile, client, err>>

----------------------------------------------------------------------------
(* The current implementation: asynchronous write errors, lines 125-135 *)

\* the client's background writer fails to deliver and reports the error
SinkError ==
    /\ impl = "current"
    /\ pcMain # "done"
    /\ Len(written) > 0
    /\ errorsCh = 0
    /\ errLogged < MaxErrors
    /\ errorsCh' = 1
    /\ UNCHANGED <<impl, config, clock, now, sunriseTime, sunsetTime,
                   pollStartTime, daylight, timeElapsed, pcMain, pcPoll,
                   cancelCh, written, flushCalls, closed, errLogged, calcCalls,
                   cycle, cycleStartAt, suspends,
                   configFile, client, err>>

\* variant: the monitor goroutine logs with Fatal, which exits the process
MonitorErrorFatal ==
    /\ impl = "current"
    /\ pcMain # "done"
    /\ errorsCh > 0
    /\ errorsCh' = errorsCh - 1
    /\ errLogged' = errLogged + 1
    /\ pcMain' = "done"
    /\ UNCHANGED <<impl, config, clock, now, sunriseTime, sunsetTime,
                   pollStartTime, daylight, timeElapsed, pcPoll,
                   cancelCh, written, flushCalls, closed, calcCalls, cycle,
                   cycleStartAt, suspends,
                   configFile, client, err>>

\* lines 128-135: the monitor goroutine takes an error and logs it
MonitorError ==
    /\ impl = "current"
    /\ pcMain # "done"
    /\ errorsCh > 0
    /\ errorsCh' = errorsCh - 1
    /\ errLogged' = errLogged + 1
    /\ UNCHANGED <<impl, config, clock, now, sunriseTime, sunsetTime,
                   pollStartTime, daylight, timeElapsed, pcMain, pcPoll,
                   cancelCh, written, flushCalls, closed, calcCalls, cycle,
                   cycleStartAt, suspends,
                   configFile, client, err>>

----------------------------------------------------------------------------
(* The legacy implementation: startup, lines 262-296 *)

\* lines 272-275: load the file; the legacy loader returns no error
LegacyMainLoadConfiguration ==
    /\ impl = "legacy"
    /\ pcMain = "load"
    /\ config' = LegacyLoadConfiguration(configFile)
    /\ pcMain' = "connect"
    /\ UNCHANGED <<impl, clock, now, sunriseTime, sunsetTime, pollStartTime,
                   daylight, timeElapsed, pcPoll, cancelCh, written,
                   flushCalls, closed, errorsCh, errLogged, calcCalls, cycle,
                   cycleStartAt, suspends, configFile, client, err>>

\* lines 277-296: parse the address and build the client; logger.Fatal
\* exits the process
LegacyMainConnect ==
    /\ impl = "legacy"
    /\ pcMain = "connect"
    /\ LET r == LegacyConnect(config)
       IN  /\ err' = r.err
           /\ client' = r.client
           /\ pcMain' = IF r.err # "" THEN "fatal" ELSE "init"
    /\ UNCHANGED <<impl, config, clock, now, sunriseTime, sunsetTime,
                   pollStartTime, daylight, timeElapsed, pcPoll, cancelCh,
                   written, flushCalls, closed, errorsCh, errLogged, calcCalls,
                   cycle, cycleStartAt, suspends, configFile>>

----------------------------------------------------------------------------
(* The legacy implementation: main, lines 298-325 *)

\* lines 298-305: the initial window
LegacyInit ==
    /\ impl = "legacy"
    /\ pcMain = "init"
    /\ now' = clock
    /\ LET w == SunriseSunset(config.latitude, config.longitude,
                              Year(clock), Month(clock), Day(clock))
       IN  sunriseTime' = w[1] /\ sunsetTime' = w[2]
    /\ calcCalls' = calcCalls + 1
    /\ pcMain' = "loop"
    /\ pcPoll' = "start"
    /\ UNCHANGED <<impl, config, clock, pollStartTime, daylight, timeElapsed,
                   cancelCh, written, flushCalls, closed, errorsCh, errLogged,
                   cycle, cycleStartAt, suspends,
                   configFile, client, err>>

\* line 309
LegacyStart ==
    /\ impl = "legacy"
    /\ pcPoll = "start"
    /\ cycle < MaxCycles
    /\ pollStartTime' = Int32(Unix(clock))
    /\ cycleStartAt' = clock
    /\ cycle' = cycle + 1
    /\ pcPoll' = "now"
    /\ UNCHANGED <<impl, config, clock, now, sunriseTime, sunsetTime, daylight,
                   timeElapsed, pcMain, cancelCh, written, flushCalls, closed,
                   errorsCh, errLogged, calcCalls, suspends,
                   configFile, client, err>>

\* lines 311-313
LegacyUpdate ==
    /\ impl = "legacy"
    /\ pcPoll = "now"
    /\ now' = clock
    /\ LET w == LegacyUpdateSunriseSunset(config, sunriseTime, sunsetTime, clock)
       IN  /\ sunriseTime' = w[1]
           /\ sunsetTime' = w[2]
           /\ daylight' = LegacyDaylight(w[1], w[2], clock)
    /\ calcCalls' = calcCalls +
                    (IF LegacyStale(sunriseTime, sunsetTime, clock) THEN 1 ELSE 0)
    /\ pcPoll' = "write"
    /\ UNCHANGED <<impl, config, clock, pollStartTime, timeElapsed, pcMain,
                   cancelCh, written, flushCalls, closed, errorsCh, errLogged,
                   cycle, cycleStartAt, suspends,
                   configFile, client, err>>

\* lines 314-320: the write returns an error or nil; an error is logged
LegacyWrite ==
    /\ impl = "legacy"
    /\ pcPoll = "write"
    /\ written' = LegacyWriteToInflux(written, daylight, now)
    /\ \E w \in WorkTimes : clock' = Add(clock, w)
    /\ \E failed \in BOOLEAN :
          errLogged' = IF failed THEN errLogged + 1 ELSE errLogged
    /\ pcPoll' = "sleep"
    /\ UNCHANGED <<impl, config, now, sunriseTime, sunsetTime, pollStartTime,
                   daylight, timeElapsed, pcMain, cancelCh, flushCalls, closed,
                   errorsCh, calcCalls, cycle, cycleStartAt, suspends,
                   configFile, client, err>>

\* line 322
LegacyElapsed ==
    /\ impl = "legacy"
    /\ pcPoll = "sleep"
    /\ timeElapsed' = Int32Sub(Int32(Unix(clock)), pollStartTime)
    /\ pcPoll' = "asleep"
    /\ UNCHANGED <<impl, config, clock, now, sunriseTime, sunsetTime,
                   pollStartTime, daylight, pcMain, cancelCh, written,
                   flushCalls, closed, errorsCh, errLogged, calcCalls, cycle,
                   cycleStartAt, suspends, configFile, client, err>>

\* line 323: time.Sleep ends
LegacySleep ==
    /\ impl = "legacy"
    /\ pcPoll = "asleep"
    /\ clock' = Add(clock, Max(0, LegacySleepArg(config, timeElapsed)))
    /\ pcPoll' = "start"
    /\ UNCHANGED <<impl, config, now, sunriseTime, sunsetTime, pollStartTime,
                   daylight, timeElapsed, pcMain, cancelCh, written, flushCalls,
                   closed, errorsCh, errLogged, calcCalls, cycle, cycleStartAt,
                   suspends, configFile, client, err>>

----------------------------------------------------------------------------
(* The environment *)

\* the process (or the machine) is suspended during the sleep between two
\* cycles and resumes st ticks later
Suspend ==
    /\ pcMain \in {"wait", "flush", "return", "close", "loop"}
    /\ pcPoll = "start"
    /\ cycle > 0
    /\ suspends < MaxSuspends
    /\ \E st \in SuspendTimes : clock' = Add(clock, st)
    /\ suspends' = suspends + 1
    /\ UNCHANGED <<impl, config, now, sunriseTime, sunsetTime, pollStartTime,
                   daylight, timeElapsed, pcMain, pcPoll, cancelCh, written,
                   flushCalls, closed, errorsCh, errLogged, calcCalls, cycle,
                   cycleStartAt,
                   configFile, client, err>>

----------------------------------------------------------------------------

Next ==
    \/ MainInit \/ Signal \/ MainReceive \/ MainFlush
    \/ MainDeferredFlush \/ MainDeferredClose
    \/ PollStart \/ PollUpdate \/ PollWrite \/ PollElapsed \/ PollSleep
    \/ SinkError \/ MonitorError
    \/ LegacyInit \/ LegacyStart \/ LegacyUpdate \/ LegacyWrite
    \/ LegacyElapsed \/ LegacySleep
    \/ Suspend

Spec == Init /\ [][Next]_vars

\* the scheduler runs the main goroutine whenever it can take a step
MainFairness ==
    /\ WF_vars(MainInit)
    /\ WF_vars(MainReceive)
    /\ WF_vars(MainFlush)
    /\ WF_vars(MainDeferredFlush)
    /\ WF_vars(MainDeferredClose)

SpecFair == Init /\ [][Next]_vars /\ MainFairness

----------------------------------------------------------------------------
(* The functions on their own: every combination of inputs is evaluated *)

InitFn ==
    /\ impl \in Impls
    /\ config \in (IF impl = "current" THEN Configs ELSE LegacyConfigs)
    /\ clock = ZeroTime
    /\ now \in FnTimes
    /\ sunriseTime \in FnTimes
    /\ sunsetTime \in FnTimes
    /\ pollStartTime = 0
    /\ daylight = FALSE
    /\ timeElapsed = 0
    /\ pcMain = "fn"
    /\ pcPoll = "fn"
    /\ cancelCh = 0
    /\ written = << >>
    /\ flushCalls = 0
    /\ closed = FALSE
    /\ errorsCh = 0
    /\ errLogged = 0
    /\ calcCalls = 0
    /\ cycle = 0
    /\ cycleStartAt = ZeroTime
    /\ suspends = 0
    /\ configFile = (IF impl = "current" THEN FileOf(config)
                                         ELSE LegacyFileOf(config))
    /\ client = (IF impl = "current" THEN InfluxConnect(config).client
                                     ELSE LegacyConnect(config).client)
    /\ err = ""

\* daylight := Daylight(sunriseTime, sunsetTime, now)
FnDaylight ==
    /\ pcPoll = "fn"
    /\ daylight' = IF impl = "current"
                   THEN Daylight(sunriseTime, sunsetTime, now)
                   ELSE LegacyDaylight(sunriseTime, sunsetTime, now)
    /\ pcPoll' = "fnDaylight"
    /\ UNCHANGED <<impl, config, clock, now, sunriseTime, sunsetTime,
                   pollStartTime, timeElapsed, pcMain, cancelCh, written,
                   flushCalls, closed, errorsCh, errLogged, calcCalls, cycle,
                   cycleStartAt, suspends,
                   configFile, client, err>>

\* sunriseTime, sunsetTime = UpdateSunriseSunset(config, sunriseTime,
\* sunsetTime, now), a first time and then a second time with the same now
FnUpdate ==
    /\ pcPoll \in {"fn", "fnUpdate"}
    /\ LET w == IF impl = "current"
                THEN UpdateSunriseSunset(config, sunriseTime, sunsetTime, now)
                ELSE LegacyUpdateSunriseSunset(config, sunriseTime, sunsetTime, now)
       IN  sunriseTime' = w[1] /\ sunsetTime' = w[2]
    /\ calcCalls' = calcCalls +
          (IF (impl = "current" /\ Stale(sunriseTime, sunsetTime, now))
              \/ (impl = "legacy" /\ LegacyStale(sunriseTime, sunsetTime, now))
           THEN 1 ELSE 0)
    /\ pcPoll' = IF pcPoll = "fn" THEN "fnUpdate" ELSE "fnUpdateAgain"
    /\ UNCHANGED <<impl, config, clock, now, pollStartTime, daylight,
                   timeElapsed, pcMain, cancelCh, written, flushCalls, closed,
                   errorsCh, errLogged, cycle, cycleStartAt, suspends,
                   configFile, client, err>>

NextFn == FnDaylight \/ FnUpdate

SpecFn == InitFn /\ [][NextFn]_vars

----------------------------------------------------------------------------
(* Vocabulary of the properties *)

\* ticks from a to b
TicksBetween(a, b) == (b.d - a.d) * TicksPerDay + (b.t - a.t)

\* whole clock seconds from a to b: the difference of the two Unix times
SecondsBetween(a, b) == (b.d - a.d) * 86400 + ((b.t \div Second) - (a.t \div Second))

\* a is not later than b
NotLater(a, b) == TicksBetween(a, b) >= 0

\* the calculator's window for the calendar day with day number dn
WindowFor(dn) ==
    SunriseSunset(config.latitude, config.longitude,
                  CivilFromDays(dn).year, CivilFromDays(dn).month,
                  CivilFromDays(dn).day)

Window == << sunriseTime, sunsetTime >>

\* a step that runs the refresh and the evaluation of a cycle
UpdateStep == pcPoll = "now" /\ pcPoll' = "write"

\* the step that measures the time a cycle took
ElapsedStep == pcPoll = "sleep" /\ pcPoll' = "asleep"

\* the step that ends the sleep of a cycle
SleepStep == pcPoll = "asleep" /\ pcPoll' = "start"

\* a step in which a write failure is reported or logged
FailureStep == errorsCh' > errorsCh \/ errLogged' > errLogged

\* the main goroutine has taken the signal from cancelCh
Stopping == pcMain \in {"flush", "return", "close", "done"}

----------------------------------------------------------------------------
(* C1 - Daylight *)

\* C1: Daylight(sunrise, sunset, t) is false when t is strictly before sunrise
\* or strictly after sunset, and true otherwise; in particular it is true at
\* t = sunrise and at t = sunset.
C1_DaylightClosedInterval ==
    pcPoll = "fnDaylight" =>
        /\ (TicksBetween(now, sunriseTime) > 0 \/ TicksBetween(sunsetTime, now) > 0)
               => daylight = FALSE
        /\ (NotLater(sunriseTime, now) /\ NotLater(now, sunsetTime))
               => daylight = TRUE
        /\ (now = sunriseTime /\ NotLater(now, sunsetTime)) => daylight = TRUE
        /\ (now = sunsetTime /\ NotLater(sunriseTime, now)) => daylight = TRUE

\* Daylight was evaluated at the instant of the sunset of a proper window
C1_Witness ==
    /\ pcPoll = "fnDaylight"
    /\ now = sunsetTime
    /\ TicksBetween(sunriseTime, sunsetTime) > 0
    /\ daylight = TRUE

----------------------------------------------------------------------------
(* C2 - the configured timeOffset *)

\* C2: the boolean of a cycle is true exactly when
\* sunrise + timeOffset <= now <= sunset - timeOffset (timeOffset in minutes).
C2_OffsetWindow ==
    pcPoll = "write" =>
        ( daylight <=>
            /\ NotLater(Add(sunriseTime, config.timeOffset * Minute), now)
            /\ NotLater(now, Add(sunsetTime, -(config.timeOffset * Minute))) )

----------------------------------------------------------------------------
(* C3 - one refresh per day rollover *)

\* C3: with the window of day D cached, a call of UpdateSunriseSunset with a
\* timestamp in day D leaves the window unchanged and calls the calculator
\* not at all; a call with a timestamp in day D+1 calls the calculator once,
\* for day D+1 (after which the window is that of D+1, so later calls in D+1
\* are calls within the cached day).
C3_OncePerRollover ==
    [][ UpdateStep =>
          /\ Window = WindowFor(clock.d) =>
                (Window' = Window /\ calcCalls' = calcCalls)
          /\ Window = WindowFor(clock.d - 1) =>
                (Window' = WindowFor(clock.d) /\ calcCalls' = calcCalls + 1)
      ]_vars

\* a third cycle ran in the day after the start day: the rollover refreshed
\* the window once and the later call made no calculator call
C3_Witness ==
    /\ pcPoll = "write"
    /\ cycle >= 3
    /\ suspends = 0
    /\ now.d = BaseDay + 1
    /\ Len(written) >= 2
    /\ written[Len(written)].t.d = BaseDay + 1
    /\ written[1].t.d = BaseDay
    /\ calcCalls = 2
    /\ Window = WindowFor(now.d)

----------------------------------------------------------------------------
(* C4 - cache freshness *)

\* C4: after the refresh step of every cycle the cached window is the
\* calculator's result for the calendar day of the cycle's now.
C4_CacheFresh ==
    pcPoll \in {"write", "sleep", "asleep"} => Window = WindowFor(now.d)

----------------------------------------------------------------------------
(* C5, C6, C7 - shutdown *)

\* C5: between the receipt of the signal and the exit of the process exactly
\* one Flush call is made.
C5_ExactlyOneFlush ==
    pcMain = "done" => flushCalls = 1

\* C6: once the signal was taken from cancelCh no sample is submitted.
C6_NoWriteAfterSignal ==
    [][ Stopping => written' = written ]_vars

\* C7: the final flush and the exit never happen while a cycle is between its
\* start and its submit step: every cycle that started has submitted.
C7_NoExitMidCycle ==
    pcMain \in {"close", "done"} =>
        (pcPoll \notin {"now", "write"} /\ Len(written) = cycle)

----------------------------------------------------------------------------
(* C8 - write failures *)

\* C8: a step in which a write failure is reported or logged does not end the
\* process, does not change the cached window and does not stop the loop: in
\* the current implementation the loop's position, the clock and the cycle
\* count are untouched; in the legacy implementation the failed write is
\* followed by the same sleep step as a successful one.
C8_FailureOnlyLogged ==
    [][ FailureStep =>
          /\ pcMain' = pcMain
          /\ Window' = Window
          /\ config' = config
          /\ cycle' = cycle
          /\ pollStartTime' = pollStartTime
          /\ IF impl = "current"
             THEN pcPoll' = pcPoll /\ clock' = clock /\ written' = written
             ELSE pcPoll = "write" /\ pcPoll' = "sleep"
      ]_vars

\* a cycle is running after two write failures were logged
C8_Witness ==
    /\ errLogged >= 2
    /\ cycle >= 3
    /\ pcPoll = "write"
    /\ pcMain # "done"

----------------------------------------------------------------------------
(* C9 - the sleep *)

\* C9: the sleep of a cycle lasts max(0, pollInterval - elapsed), elapsed
\* being the clock seconds from the cycle's start to the end of its submit
\* step.
C9_SleepRemainder ==
    [][ SleepStep =>
          TicksBetween(clock, clock') =
             Max(0, config.pollInterval - SecondsBetween(cycleStartAt, clock)) * Second
      ]_vars

\* pollInterval 60: a cycle of 5 s was followed by the next 60 s after its
\* start, and a cycle of 65 s by the next 65 s after its start
C9_Witness ==
    /\ config.pollInterval = 60
    /\ suspends = 0
    /\ Len(written) >= 3
    /\ TicksBetween(written[1].t, written[2].t) = 60 * Second
    /\ TicksBetween(written[2].t, written[3].t) = 65 * Second
    /\ timeElapsed = 65

----------------------------------------------------------------------------
(* C10 - order of the samples *)

\* C10: the timestamps of the submitted samples increase strictly, and every
\* cycle submits one sample: a cycle that has passed its submit step has
\* added exactly one sample, a cycle before it none.
C10_OrderedOnePerCycle ==
    /\ \A i, j \in 1..Len(written) :
          i < j => TicksBetween(written[i].t, written[j].t) > 0
    /\ Len(written) = IF pcPoll \in {"now", "write"} THEN cycle - 1 ELSE cycle

\* three samples were submitted, the third right after an overrun cycle
C10_Witness ==
    /\ Len(written) >= 3
    /\ cycle = Len(written)
    /\ TicksBetween(written[2].t, written[3].t) = 65 * Second
    /\ config.pollInterval = 60


----------------------------------------------------------------------------
(* C12 - the refresh is idempotent *)

\* the second of two successive calls of UpdateSunriseSunset with the same now
SecondUpdateStep == pcPoll = "fnUpdate" /\ pcPoll' = "fnUpdateAgain"

\* C12: the second of two calls of UpdateSunriseSunset in immediate
\* succession with the same now makes no calculator call and returns the
\* window of the first call unchanged.
C12_RefreshIdempotent ==
    [][ SecondUpdateStep => (calcCalls' = calcCalls /\ Window' = Window) ]_vars

\* the first call refreshed a window of the day before, the second call ran
C12_Witness ==
    /\ pcPoll = "fnUpdateAgain"
    /\ calcCalls = 1
    /\ Window = WindowFor(now.d)
    /\ now.d = BaseDay + 1

----------------------------------------------------------------------------
(* C13 - the degenerate window *)

\* C13: when the sunrise is strictly after the sunset, Daylight is false for
\* every instant.
C13_EmptyWindowFalse ==
    (pcPoll = "fnDaylight" /\ TicksBetween(sunsetTime, sunriseTime) > 0)
        => daylight = FALSE

\* Daylight was evaluated on a window whose sunrise is after its sunset, at
\* an instant after both
C13_Witness ==
    /\ pcPoll = "fnDaylight"
    /\ TicksBetween(sunsetTime, sunriseTime) > 0
    /\ TicksBetween(sunriseTime, now) > 0
    /\ daylight = FALSE


----------------------------------------------------------------------------
(* C14 - when the window is replaced *)

\* C14: UpdateSunriseSunset calls the calculator if and only if the calendar
\* day (year, month and day) of the cached sunrise or of the cached sunset is
\* the calendar day of now - 24h; otherwise it returns the cached pair
\* unchanged, and when it refreshes it asks for now's year, month and day.
C14_RefreshIffYesterday ==
    [][ UpdateStep =>
          /\ (calcCalls' # calcCalls) <=>
                (sunriseTime.d = clock.d - 1 \/ sunsetTime.d = clock.d - 1)
          /\ (calcCalls' = calcCalls) => Window' = Window
          /\ (calcCalls' # calcCalls) => Window' = WindowFor(clock.d)
      ]_vars


\* the day of the month of the calendar day with day number dn
DayOfMonth(dn) == CivilFromDays(dn).day

\* C14 as amended: UpdateSunriseSunset calls the calculator if and only if
\* the day of the month of the cached sunrise or of the cached sunset is the
\* day of the month of now - 24h, whatever the months and years; otherwise it
\* returns the cached pair unchanged, and when it refreshes it asks for now's
\* year, month and day.
C14_RefreshIffSameDayOfMonth ==
    [][ UpdateStep =>
          /\ (calcCalls' # calcCalls) <=>
                \/ DayOfMonth(sunriseTime.d) = DayOfMonth(clock.d - 1)
                \/ DayOfMonth(sunsetTime.d) = DayOfMonth(clock.d - 1)
          /\ (calcCalls' = calcCalls) => Window' = Window
          /\ (calcCalls' # calcCalls) => Window' = WindowFor(clock.d)
      ]_vars

\* a window cached 29 days earlier, in the month before, was replaced because
\* its day of the month is that of now - 24h
C14_Witness ==
    /\ pcPoll = "write"
    /\ Len(written) >= 1
    /\ now.d = written[Len(written)].t.d + 29
    /\ Month(now) # Month(written[Len(written)].t)
    /\ calcCalls = 2
    /\ Window = WindowFor(now.d)


----------------------------------------------------------------------------
(* C19 - the elapsed time in 32 bits *)

\* Unix time tm no longer fits an int32 (it is 2^31 or more)
PastInt32(tm) == Unix(tm).hi >= HalfLimb

\* C19: timeElapsed, the wrapping difference of the two int32 Unix times, is
\* the difference of the two Unix times themselves, also when they exceed
\* 2^31 - 1 or lie on both sides of it; it is never negative, and the sleep
\* never exceeds pollInterval.
C19_ElapsedDespiteTruncation ==
    [][ /\ ElapsedStep =>
              /\ timeElapsed' = SecondsBetween(cycleStartAt, clock)
              /\ timeElapsed' >= 0
        /\ SleepStep =>
              TicksBetween(clock, clock') <= config.pollInterval * Second
      ]_vars

\* a cycle began before 2^31 seconds and ended after: its start time is a
\* positive int32, its end time does not fit, and five seconds were measured
C19_Witness ==
    /\ pcPoll = "start"
    /\ cycle >= 1
    /\ ~PastInt32(cycleStartAt)
    /\ pollStartTime > 0
    /\ PastInt32(clock)
    /\ timeElapsed = 5


----------------------------------------------------------------------------
(* C17 - the two implementations run the same loop *)

\* a step that records the start of a cycle
StartStep == pcPoll = "start" /\ pcPoll' = "now"

\* a step that submits the sample of a cycle
WriteStep == pcPoll = "write" /\ pcPoll' = "sleep"

\* the step of the startup that computes the initial window
InitialWindowStep == pcMain = "init" /\ pcMain' # "init"

\* C17: from the same state and the same clock reading, a step of the loop of
\* one implementation gives the window, the boolean, the submitted sample,
\* the elapsed time and the sleep that the functions of the other
\* implementation give: both produce the same windows and the same samples.
C17_SameLoop ==
    [][ /\ InitialWindowStep =>
              (now' = clock /\ Window' = WindowFor(clock.d))
        /\ StartStep =>
              (pollStartTime' = Int32(Unix(clock)) /\ UNCHANGED <<now, Window, written>>)
        /\ UpdateStep =>
              /\ now' = clock
              /\ Window' = UpdateSunriseSunset(config, sunriseTime, sunsetTime, clock)
              /\ Window' = LegacyUpdateSunriseSunset(config, sunriseTime, sunsetTime, clock)
              /\ daylight' = Daylight(sunriseTime', sunsetTime', clock)
              /\ daylight' = LegacyDaylight(sunriseTime', sunsetTime', clock)
        /\ WriteStep =>
              /\ written' = WriteToInflux(written, daylight, now)
              /\ written' = LegacyWriteToInflux(written, daylight, now)
              /\ UNCHANGED <<now, Window>>
        /\ ElapsedStep =>
              /\ timeElapsed' = Int32Sub(Int32(Unix(clock)), pollStartTime)
              /\ UNCHANGED <<now, Window, written, clock>>
        /\ SleepStep =>
              /\ TicksBetween(clock, clock') = Max(0, SleepArg(config, timeElapsed))
              /\ TicksBetween(clock, clock') = Max(0, LegacySleepArg(config, timeElapsed))
              /\ UNCHANGED <<now, Window, written>>
      ]_vars

\* the legacy loop has submitted three samples, one of them after a refresh
\* of the window
C17_Witness ==
    /\ impl = "legacy"
    /\ Len(written) >= 3
    /\ calcCalls >= 2
    /\ pcPoll = "sleep"


----------------------------------------------------------------------------
(* C16 - one writer of the cached window *)

\* C16: now and the cached window are written by the main goroutine only
\* before the poll goroutine is started (the step that computes the initial
\* window), and afterwards only by the refresh step of the poll goroutine, a
\* step in which the main goroutine does not move; the window is at all times
\* a whole window, sunrise and sunset of one calculator call.
C16_SingleWriter ==
    [][ /\ (now' # now \/ Window' # Window) =>
              IF pcPoll = "idle"
              THEN InitialWindowStep
              ELSE UpdateStep /\ pcMain' = pcMain
        /\ pcPoll' # "idle" => Window' = WindowFor(sunriseTime'.d)
      ]_vars

\* the poll goroutine has replaced the window and is in the middle of a
\* cycle while the main goroutine is shutting down
C16_Witness ==
    /\ impl = "current"
    /\ pcMain \in {"flush", "return", "close"}
    /\ pcPoll = "write"
    /\ calcCalls >= 2
    /\ Window = WindowFor(now.d)


----------------------------------------------------------------------------
(* C15 - shutdown terminates *)

\* C15: once a signal is queued in cancelCh the process eventually exits, and
\* the main goroutine, once it has taken the signal, never goes back to
\* waiting.
C15_SignalLeadsToExit ==
    /\ (impl = "current" /\ cancelCh > 0) ~> (pcMain = "done")
    /\ [][ Stopping => Stopping' ]_vars

\* the process has exited after a signal, with the poll loop cut short
C15_Witness ==
    /\ pcMain = "done"
    /\ closed
    /\ flushCalls > 0
    /\ cycle < MaxCycles


----------------------------------------------------------------------------
(* The program from the configuration file on *)

InitStartup ==
    /\ impl \in Impls
    /\ configFile \in (IF impl = "current" THEN ConfigFiles ELSE LegacyConfigFiles)
    /\ config = (IF impl = "current" THEN NilConfiguration
                                     ELSE LegacyZeroConfiguration)
    /\ client = NoClient
    /\ err = ""
    /\ clock = Norm(BaseDay, 6 * Hour + 44 * Minute)
    /\ now = ZeroTime
    /\ sunriseTime = ZeroTime
    /\ sunsetTime = ZeroTime
    /\ pollStartTime = 0
    /\ daylight = FALSE
    /\ timeElapsed = 0
    /\ pcMain = "load"
    /\ pcPoll = "idle"
    /\ cancelCh = 0
    /\ written = << >>
    /\ flushCalls = 0
    /\ closed = FALSE
    /\ errorsCh = 0
    /\ errLogged = 0
    /\ calcCalls = 0
    /\ cycle = 0
    /\ cycleStartAt = ZeroTime
    /\ suspends = 0

\* startup, the initial window and the poll loop
NextStartup ==
    \/ MainLoadConfiguration
    \/ MainInfluxConnect
    \/ MainInit
    \/ PollStart \/ PollUpdate \/ PollWrite \/ PollElapsed \/ PollSleep
    \/ LegacyMainLoadConfiguration
    \/ LegacyMainConnect
    \/ LegacyInit
    \/ LegacyStart \/ LegacyUpdate \/ LegacyWrite
    \/ LegacyElapsed \/ LegacySleep

SpecStartup == InitStartup /\ [][NextStartup]_vars

\* main is past LoadConfiguration and InfluxConnect, or has exited in them
StartupOver == pcMain \notin {"load", "connect"}

\* the process has exited at startup with nothing computed or submitted
ExitedAtStartup ==
    /\ pcMain = "fatal"
    /\ err # ""
    /\ pcPoll = "idle"
    /\ calcCalls = 0
    /\ cycle = 0
    /\ written = << >>

----------------------------------------------------------------------------
(* C11 - configuration errors are fatal at startup *)

\* the file lacks a coordinate or holds one out of range
BadCoordinates ==
    \/ configFile.latitude = << >>
    \/ configFile.longitude = << >>
    \/ configFile.latitude[1] < -90 \/ configFile.latitude[1] > 90
    \/ configFile.longitude[1] < -180 \/ configFile.longitude[1] > 180

\* the file holds neither a token nor a username with a password
MissingCredentials ==
    /\ configFile.influxDB.token = ""
    /\ configFile.influxDB.username = "" \/ configFile.influxDB.password = ""

\* the file holds neither a bucket nor a database with a retention policy
MissingTarget ==
    /\ configFile.influxDB.bucket = ""
    /\ configFile.influxDB.database = "" \/ configFile.influxDB.retentionPolicy = ""

\* C11: when the coordinates are missing or invalid, or the sink credentials
\* or the sink target are missing, startup fails and the process exits before
\* the initial window is computed and before any cycle or submission.
C11_ConfigErrorsFatal ==
    (impl = "current" /\ StartupOver
        /\ (BadCoordinates \/ MissingCredentials \/ MissingTarget))
        => ExitedAtStartup


----------------------------------------------------------------------------
(* C18 - InfluxConnect's precedence *)

\* C18: after InfluxConnect has run on a loaded configuration, a non-empty
\* token is the auth, else username:password when both are non-empty, else
\* the empty string; a non-empty bucket is the destination, else
\* database/retentionPolicy when both are non-empty, else the call returns
\* InfluxWriteConfigError, no client exists and the process exits; missing
\* credentials alone give no error.
C18_ConnectPrecedence ==
    (impl = "current" /\ StartupOver /\ configFile.state = "ok") =>
        LET db == config.influxDB
            userPass == db.username # "" /\ db.password # ""
            dbRp == db.database # "" /\ db.retentionPolicy # ""
        IN  /\ (db.bucket = "" /\ ~dbRp) <=> (err = "InfluxWriteConfigError")
            /\ err # "" => (client = NoClient /\ ExitedAtStartup)
            /\ err = "" =>
                 /\ client.created
                 /\ db.token # "" => client.auth = db.token
                 /\ (db.token = "" /\ userPass) =>
                        client.auth = db.username \o ":" \o db.password
                 /\ (db.token = "" /\ ~userPass) => client.auth = ""
                 /\ db.bucket # "" => client.writeDest = db.bucket
                 /\ (db.bucket = "" /\ dbRp) =>
                        client.writeDest = db.database \o "/" \o db.retentionPolicy

\* a client built from a file that holds every credential and every target
C18_Witness ==
    /\ impl = "current"
    /\ StartupOver
    /\ client.created
    /\ config.influxDB.token # ""
    /\ config.influxDB.username # "" /\ config.influxDB.password # ""
    /\ config.influxDB.bucket # ""
    /\ config.influxDB.database # "" /\ config.influxDB.retentionPolicy # ""
    /\ client.auth = config.influxDB.token
    /\ client.writeDest = config.influxDB.bucket

====
